---- MODULE Spec2Model ----
(***************************************************************************)
(* The workflow orchestration engine of the AI software engineering team   *)
(* server (src/server.py): the shared project_state dictionary, the eight  *)
(* team-member tools that read and write it, reset_project, and the        *)
(* orchestrator tool, which resets the state, asks the planner for a plan  *)
(* and runs the plan's steps one after the other.                          *)
(*                                                                         *)
(* Tools are synchronous functions served by one event loop, so a tool     *)
(* call runs to its end before the next one starts.  The orchestrator is   *)
(* the one tool with several external calls in a row; its position between *)
(* those calls is pc.  The two reads that take project_state field by      *)
(* field over several statements (export_project_files, GET /project) are  *)
(* two steps each, with pc = "reading" in between.                         *)
(*                                                                         *)
(* Texts are abstract tokens.  A Python None is the token None, a string   *)
(* slice s[:n] of a token is the token itself (tokens are shorter than     *)
(* every limit in the source) and a slice of None is a TypeError.          *)
(***************************************************************************)
EXTENDS Integers, Sequences, FiniteSets, TLC

VARIABLES
    GEMINI_AVAILABLE,   \* module constant set at import (server.py 25-39)
    project_state,      \* the module-level dictionary (server.py 47-56)
    pc,                 \* position of the call in progress
    user_request,       \* orchestrator argument
    auto_execute,       \* orchestrator argument
    plan,               \* plan['team_workflow'] of the run in progress
    idx,                \* position of the execution loop in the workflow
    results,            \* orchestrator local: dict agent name -> result
    workflow_outputs,   \* orchestrator local: list of results
    plan_summary,       \* orchestrator local: the report under construction
    ret,                \* what the last finished tool call gave its caller
    calls,              \* history: worker invocations of the run in progress
    entry,              \* history: what the last reset did to the state: the
                        \* run-start reset (kept until the planning call has
                        \* answered) or reset_project (kept until the next call)
    reading,            \* what the read in progress (export_project_files,
                        \* GET /project) has read of project_state so far
    output_directory    \* the export directory exists on disk

vars == <<GEMINI_AVAILABLE, project_state, pc, user_request, auto_execute, plan,
          idx, results, workflow_outputs, plan_summary, ret, calls, entry,
          reading, output_directory>>

runVars == <<pc, user_request, auto_execute, plan, idx, results,
             workflow_outputs, plan_summary, calls, entry>>

callVars == <<pc, user_request, auto_execute, plan, idx, results,
              workflow_outputs, plan_summary, calls>>

---------------------------------------------------------------------------
(* Bounds and value sets *)

MaxSteps == 2

None == "<None>"
Texts == {"t1", "t2"}
Requests == {"reqA", "reqB"}
\* the requests an orchestrator run is started with
RunRequests == {"reqA"}
ModuleNames == {"main_module", "m1"}

TeamMembers ==
    {"product_analyst", "research_engineer", "software_architect",
     "technical_lead", "senior_developer", "qa_engineer", "devops_engineer",
     "documentation_specialist"}

\* an agent name no branch of the dispatch knows
UnknownAgent == "project_manager"

AgentNames == TeamMembers \cup {UnknownAgent}

\* generate_content returns a response with a text, or raises
GeminiRaises == "<raises>"
GeminiOutcomes == Texts \cup {GeminiRaises}

\* Python truthiness of an optional string
Falsy(v) == v = None \/ v = ""

---------------------------------------------------------------------------
(* project_state *)

NoModules == [m \in ModuleNames |-> None]

ModuleKeys(cm) == {m \in ModuleNames : cm[m] # None}

EmptyState ==
    [current_project |-> None, requirements |-> None, architecture |-> None,
     tech_stack |-> None, implementation_plan |-> None,
     code_modules |-> NoModules, testing_results |-> None,
     deployment_plan |-> None]

\* dict.get(key, default): every key of project_state is present from the
\* start, so the default is never the answer
StateGet(ps, key, default) == ps[key]

\* value[:n]
Slices(v) == v # None

---------------------------------------------------------------------------
(* What a tool call gives back *)

NoResult == [kind |-> "none", agent |-> "", text |-> ""]

Report(agent, text) == [kind |-> "report", agent |-> agent, text |-> text]
ErrorText(agent) == [kind |-> "error_text", agent |-> agent, text |-> ""]
RequiresGemini(agent) == [kind |-> "requires_gemini", agent |-> agent, text |-> ""]
UnknownAgentText(agent) == [kind |-> "unknown_agent", agent |-> agent, text |-> ""]
ErrorExecuting(agent) == [kind |-> "error_executing", agent |-> agent, text |-> ""]

\* the three ways a worker call ends
Returned(ps, result, prompt) ==
    [state |-> ps, raised |-> FALSE, result |-> result, prompt |-> prompt]
Raised(ps, prompt) ==
    [state |-> ps, raised |-> TRUE, result |-> NoResult, prompt |-> prompt]

---------------------------------------------------------------------------
(* The eight team members.  ps is project_state at the call, out the       *)
(* outcome of the generate_content call the worker makes (if it gets that  *)
(* far); prompt is what the worker read into its prompt.                   *)

\* variant, not the code: the project is named before the generation call is made
product_analystNamesFirst(ps, request, out) ==
    IF ~GEMINI_AVAILABLE THEN Returned(ps, RequiresGemini("product_analyst"), <<>>)
    ELSE IF out = GeminiRaises
    THEN Returned([ps EXCEPT !.current_project = request],
                  ErrorText("product_analyst"), <<request>>)
    ELSE Returned([ps EXCEPT !.requirements = out, !.current_project = request],
                  Report("product_analyst", out), <<request>>)

product_analyst(ps, request, out) ==
    IF ~GEMINI_AVAILABLE THEN Returned(ps, RequiresGemini("product_analyst"), <<>>)
    ELSE IF out = GeminiRaises
    THEN Returned(ps, ErrorText("product_analyst"), <<request>>)
    ELSE Returned([ps EXCEPT !.requirements = out, !.current_project = request],
                  Report("product_analyst", out), <<request>>)

research_engineer(ps, out) ==
    IF ~GEMINI_AVAILABLE THEN Returned(ps, RequiresGemini("research_engineer"), <<>>)
    ELSE IF out = GeminiRaises
    THEN Returned(ps, ErrorText("research_engineer"), <<>>)
    ELSE Returned(ps, Report("research_engineer", out), <<>>)

\* variant, not the code: a new architecture discards the implementation plan made for the old one
software_architectInvalidates(ps, requirements, out) ==
    IF ~GEMINI_AVAILABLE THEN Returned(ps, RequiresGemini("software_architect"), <<>>)
    ELSE
    LET reqs == IF Falsy(requirements)
                THEN StateGet(ps, "requirements", "No requirements available")
                ELSE requirements
    IN  IF out = GeminiRaises
        THEN Returned(ps, ErrorText("software_architect"), <<reqs>>)
        ELSE Returned([ps EXCEPT !.architecture = out, !.implementation_plan = None],
                      Report("software_architect", out), <<reqs>>)

software_architect(ps, requirements, out) ==
    IF ~GEMINI_AVAILABLE THEN Returned(ps, RequiresGemini("software_architect"), <<>>)
    ELSE
    LET reqs == IF Falsy(requirements)
                THEN StateGet(ps, "requirements", "No requirements available")
                ELSE requirements
    IN  IF out = GeminiRaises
        THEN Returned(ps, ErrorText("software_architect"), <<reqs>>)
        ELSE Returned([ps EXCEPT !.architecture = out],
                      Report("software_architect", out), <<reqs>>)

\* variant, not the code: a failed planning call withdraws the implementation plan
technical_leadClearsOnError(ps, architecture, out) ==
    IF ~GEMINI_AVAILABLE THEN Returned(ps, RequiresGemini("technical_lead"), <<>>)
    ELSE
    LET arch == IF Falsy(architecture)
                THEN StateGet(ps, "architecture", "No architecture available")
                ELSE architecture
    IN  IF out = GeminiRaises
        THEN Returned([ps EXCEPT !.implementation_plan = None],
                      ErrorText("technical_lead"), <<arch>>)
        ELSE Returned([ps EXCEPT !.implementation_plan = out],
                      Report("technical_lead", out), <<arch>>)

technical_lead(ps, architecture, out) ==
    IF ~GEMINI_AVAILABLE THEN Returned(ps, RequiresGemini("technical_lead"), <<>>)
    ELSE
    LET arch == IF Falsy(architecture)
                THEN StateGet(ps, "architecture", "No architecture available")
                ELSE architecture
    IN  IF out = GeminiRaises
        THEN Returned(ps, ErrorText("technical_lead"), <<arch>>)
        ELSE Returned([ps EXCEPT !.implementation_plan = out],
                      Report("technical_lead", out), <<arch>>)

\* variant, not the code: a module that is already stored is not replaced
senior_developerKeepsFirst(ps, module_name, out) ==
    IF ~GEMINI_AVAILABLE THEN Returned(ps, RequiresGemini("senior_developer"), <<>>)
    ELSE
    LET arch == StateGet(ps, "architecture", "See specifications")
    IN  IF ~Slices(arch) THEN Raised(ps, <<>>)
        ELSE IF out = GeminiRaises
        THEN Returned(ps, ErrorText("senior_developer"), <<arch>>)
        ELSE Returned(IF ps.code_modules[module_name] # None THEN ps
                      ELSE [ps EXCEPT !.code_modules[module_name] = out],
                      Report("senior_developer", out), <<arch>>)

senior_developer(ps, module_name, out) ==
    IF ~GEMINI_AVAILABLE THEN Returned(ps, RequiresGemini("senior_developer"), <<>>)
    ELSE
    LET arch == StateGet(ps, "architecture", "See specifications")
    IN  IF ~Slices(arch) THEN Raised(ps, <<>>)
        ELSE IF out = GeminiRaises
        THEN Returned(ps, ErrorText("senior_developer"), <<arch>>)
        ELSE Returned([ps EXCEPT !.code_modules[module_name] = out],
                      Report("senior_developer", out), <<arch>>)

qa_engineer(ps, module_name, code, out) ==
    IF ~GEMINI_AVAILABLE THEN Returned(ps, RequiresGemini("qa_engineer"), <<>>)
    ELSE
    LET stored == ps.code_modules[module_name]
        src == IF ~Falsy(code) THEN code
               ELSE IF stored # None THEN stored ELSE "No code available"
        arch == StateGet(ps, "architecture", "No architecture available")
    IN  IF ~Slices(arch) THEN Raised(ps, <<src>>)
        ELSE IF out = GeminiRaises
        THEN Returned(ps, ErrorText("qa_engineer"), <<src, arch>>)
        ELSE Returned(ps, Report("qa_engineer", out), <<src, arch>>)

devops_engineer(ps, out) ==
    IF ~GEMINI_AVAILABLE THEN Returned(ps, RequiresGemini("devops_engineer"), <<>>)
    ELSE
    LET arch == StateGet(ps, "architecture", "No architecture available")
    IN  IF ~Slices(arch) THEN Raised(ps, <<>>)
        ELSE IF out = GeminiRaises
        THEN Returned(ps, ErrorText("devops_engineer"), <<arch>>)
        ELSE Returned([ps EXCEPT !.deployment_plan = out],
                      Report("devops_engineer", out), <<arch>>)

documentation_specialist(ps, out) ==
    IF ~GEMINI_AVAILABLE
    THEN Returned(ps, RequiresGemini("documentation_specialist"), <<>>)
    ELSE
    LET proj == StateGet(ps, "current_project", "No project info")
        reqs == StateGet(ps, "requirements", "No requirements")
        arch == StateGet(ps, "architecture", "No architecture")
        impl == StateGet(ps, "implementation_plan", "No implementation plan")
    IN  IF ~Slices(reqs) \/ ~Slices(arch) \/ ~Slices(impl) THEN Raised(ps, <<proj>>)
        ELSE IF out = GeminiRaises
        THEN Returned(ps, ErrorText("documentation_specialist"),
                      <<proj, reqs, arch, impl>>)
        ELSE Returned(ps, Report("documentation_specialist", out),
                      <<proj, reqs, arch, impl>>)

---------------------------------------------------------------------------
(* Plans: what json.loads gives for the planner's team_workflow.  A step   *)
(* is a dictionary with a number, an agent name, a parameter bag and the   *)
(* numbers of the steps it depends on.  A parameter that is absent from    *)
(* the bag is None here.                                                   *)

NoParams ==
    [user_request |-> None, requirements |-> None, architecture |-> None,
     module_name |-> None, code |-> None]

ParamsOf(agent) ==
    CASE agent = "product_analyst" ->
            {[NoParams EXCEPT !.user_request = r] : r \in {None, "reqB"}}
      [] agent = "software_architect" ->
            {[NoParams EXCEPT !.requirements = t] : t \in {None, "t1"}}
      [] agent = "technical_lead" ->
            {[NoParams EXCEPT !.architecture = t] : t \in {None, "t1"}}
      [] agent = "senior_developer" ->
            {[NoParams EXCEPT !.module_name = m] : m \in {None, "m1"}}
      [] agent = "qa_engineer" ->
            {[NoParams EXCEPT !.module_name = m, !.code = c] :
                m \in {None, "m1"}, c \in {None, "t1"}}
      [] OTHER -> {NoParams}

StepInfo(n, agent, params, deps) ==
    [step |-> n, agent |-> agent, parameters |-> params, depends_on |-> deps]

\* the numbers a step of a freely numbered plan carries or depends on
StepNumbers == {1, 2}

\* the steps an agent can be asked for, numbered n, without dependencies
AgentSteps(n) ==
    UNION {{StepInfo(n, a, p, {}) : p \in ParamsOf(a)} : a \in AgentNames}

\* plans numbered in list order, any agent, any parameters, no dependencies
RECURSIVE NumberedPlans(_)
NumberedPlans(n) ==
    IF n = 0 THEN {<<>>}
    ELSE {Append(w, s) : w \in NumberedPlans(n - 1), s \in AgentSteps(n)}

\* plans with any numbering and at most one dependency per step, over the
\* architecture-producing worker and a worker that reads the architecture
DependencyAgents == {"software_architect", "senior_developer"}
DependsOn == {{}} \cup {{d} : d \in StepNumbers}

LinkedSteps ==
    {StepInfo(k, a, NoParams, d) :
        k \in StepNumbers, a \in DependencyAgents, d \in DependsOn}

RECURSIVE LinkedPlans(_)
LinkedPlans(n) ==
    IF n = 0 THEN {<<>>}
    ELSE {Append(w, s) : w \in LinkedPlans(n - 1), s \in LinkedSteps}

Plans == UNION {NumberedPlans(n) \cup LinkedPlans(n) : n \in 0..MaxSteps}

---------------------------------------------------------------------------
(* The orchestrator *)

\* variant, not the code: the run-start reset leaves the code modules of the last run
ResetForRunKeepModules(ps, request) ==
    [ps EXCEPT !.current_project = request, !.requirements = None,
               !.architecture = None, !.implementation_plan = None,
               !.deployment_plan = None]

\* variant, not the code: the run-start reset clears the artifacts but does not name the project
ResetForRunKeepProject(ps, request) ==
    [ps EXCEPT !.requirements = None,
               !.architecture = None, !.implementation_plan = None,
               !.code_modules = NoModules, !.deployment_plan = None]

\* the reset at the start of a run (tech_stack and testing_results are not
\* among the keys it assigns)
ResetForRun(ps, request) ==
    [ps EXCEPT !.current_project = request, !.requirements = None,
               !.architecture = None, !.implementation_plan = None,
               !.code_modules = NoModules, !.deployment_plan = None]

HasArtifacts(ps) ==
    \/ ps.requirements # None
    \/ ps.architecture # None
    \/ ps.implementation_plan # None
    \/ ps.deployment_plan # None
    \/ ModuleKeys(ps.code_modules) # {}

\* parameters.get(key, default)
ParamGet(parameters, key, default) ==
    IF parameters[key] = None THEN default ELSE parameters[key]

\* variant, not the code: the worker is looked up by name, an unknown name raises
DispatchLookup(step_info, request, ps, out) ==
    IF step_info.agent \in TeamMembers
    THEN CASE step_info.agent = "product_analyst" ->
                product_analyst(ps, ParamGet(step_info.parameters, "user_request", request), out)
           [] step_info.agent = "research_engineer" -> research_engineer(ps, out)
           [] step_info.agent = "software_architect" ->
                software_architect(ps, step_info.parameters.requirements, out)
           [] step_info.agent = "technical_lead" ->
                technical_lead(ps, step_info.parameters.architecture, out)
           [] step_info.agent = "senior_developer" ->
                senior_developer(ps, ParamGet(step_info.parameters, "module_name", "main_module"), out)
           [] step_info.agent = "qa_engineer" ->
                qa_engineer(ps, ParamGet(step_info.parameters, "module_name", "main_module"),
                            step_info.parameters.code, out)
           [] step_info.agent = "devops_engineer" -> devops_engineer(ps, out)
           [] OTHER -> documentation_specialist(ps, out)
    ELSE Raised(ps, <<>>)

\* the if/elif chain that calls the worker a step names
Dispatch(step_info, request, ps, out) ==
    LET agent_name == step_info.agent
        parameters == step_info.parameters
    IN  CASE agent_name = "product_analyst" ->
                product_analyst(ps, ParamGet(parameters, "user_request", request), out)
          [] agent_name = "research_engineer" ->
                research_engineer(ps, out)
          [] agent_name = "software_architect" ->
                software_architect(ps, parameters.requirements, out)
          [] agent_name = "technical_lead" ->
                technical_lead(ps, parameters.architecture, out)
          [] agent_name = "senior_developer" ->
                senior_developer(ps, ParamGet(parameters, "module_name", "main_module"), out)
          [] agent_name = "qa_engineer" ->
                qa_engineer(ps, ParamGet(parameters, "module_name", "main_module"),
                            parameters.code, out)
          [] agent_name = "devops_engineer" ->
                devops_engineer(ps, out)
          [] agent_name = "documentation_specialist" ->
                documentation_specialist(ps, out)
          [] OTHER ->
                Returned(ps, UnknownAgentText(agent_name), <<>>)

\* the branch of the chain that is taken calls a worker
CallsWorker(step_info) == step_info.agent \in TeamMembers

NoResults == [a \in AgentNames |-> NoResult]
ResultKeys(res) == {a \in AgentNames : res[a] # NoResult}

NoSummary ==
    [workflow |-> <<>>, sections |-> <<>>, narrative |-> None,
     complete |-> FALSE, members |-> 0, artifacts |-> 0]

\* the TEAM WORKFLOW listing of the plan
Listing(w) ==
    [i \in 1..Len(w) |->
        [step |-> w[i].step, agent |-> w[i].agent, depends_on |-> w[i].depends_on]]

Section(step_info, entry_) ==
    [step |-> step_info.step, agent |-> step_info.agent, entry |-> entry_]

NoReturn == [kind |-> "none"]
OrchestratorReturn(kind, summary) == [kind |-> kind, summary |-> summary]
ToolRaised(agent) == [kind |-> "raised", agent |-> agent, text |-> ""]

NoEntry == [changed |-> FALSE, had_artifacts |-> FALSE]

\* the locals of an orchestrator call that has returned
Returns(value) ==
    /\ pc' = "idle"
    /\ ret' = value
    /\ user_request' = None
    /\ auto_execute' = FALSE
    /\ plan' = <<>>
    /\ idx' = 0
    /\ results' = NoResults
    /\ workflow_outputs' = <<>>
    /\ plan_summary' = NoSummary
    /\ calls' = <<>>
    /\ entry' = NoEntry

\* orchestrator(user_request, auto_execute) up to the planning call
OrchestratorStart(request, auto) ==
    /\ pc = "idle"
    /\ IF ~GEMINI_AVAILABLE
       THEN /\ ret' = OrchestratorReturn("requires_gemini", NoSummary)
            /\ UNCHANGED <<GEMINI_AVAILABLE, reading, output_directory, project_state, runVars>>
       ELSE /\ project_state' = ResetForRun(project_state, request)
            /\ pc' = "analysis"
            /\ user_request' = request
            /\ auto_execute' = auto
            /\ entry' = [changed |-> ResetForRun(project_state, request) # project_state,
                         had_artifacts |-> HasArtifacts(project_state)]
            /\ ret' = NoReturn
            /\ UNCHANGED <<GEMINI_AVAILABLE, reading, output_directory, plan, idx, results, workflow_outputs,
                           plan_summary, calls>>

\* the planning call raises, its text holds no JSON object, or json.loads raises
AnalysisFailures == {"analysis_error", "parse_error"}

\* variant, not the code: a planning failure falls back to a one-step default plan
AnalysisFailsDefaultPlan(kind) ==
    /\ pc = "analysis"
    /\ plan' = <<StepInfo(1, "product_analyst", NoParams, {})>>
    /\ idx' = 1
    /\ plan_summary' = [NoSummary EXCEPT !.workflow = Listing(plan')]
    /\ pc' = "executing"
    /\ entry' = NoEntry
    /\ UNCHANGED <<GEMINI_AVAILABLE, reading, output_directory, project_state, user_request, auto_execute,
                   results, workflow_outputs, ret, calls>>

AnalysisFails(kind) ==
    /\ pc = "analysis"
    /\ Returns(OrchestratorReturn(kind, NoSummary))
    /\ UNCHANGED <<GEMINI_AVAILABLE, reading, output_directory, project_state>>

\* the planning call gives a plan: the plan is listed and, with auto_execute,
\* the execution loop is entered.  Nothing looks at the step numbers, the
\* dependencies or the agent names before the loop
\* variant, not the code: the plan is executed whatever auto_execute says
AcceptPlanAlwaysRuns(w) ==
    /\ pc = "analysis"
    /\ plan' = w
    /\ idx' = 1
    /\ results' = NoResults
    /\ workflow_outputs' = <<>>
    /\ plan_summary' = [NoSummary EXCEPT !.workflow = Listing(w)]
    /\ pc' = IF Len(w) = 0 THEN "summary" ELSE "executing"
    /\ entry' = NoEntry
    /\ UNCHANGED <<user_request, auto_execute, ret, calls>>
    /\ UNCHANGED <<GEMINI_AVAILABLE, reading, output_directory, project_state>>

AcceptPlan(w) ==
    /\ pc = "analysis"
    /\ LET listed == [NoSummary EXCEPT !.workflow = Listing(w)]
       IN  IF ~auto_execute
           THEN Returns(OrchestratorReturn("plan", listed))
           ELSE /\ plan' = w
                /\ idx' = 1
                /\ results' = NoResults
                /\ workflow_outputs' = <<>>
                /\ plan_summary' = listed
                /\ pc' = IF Len(w) = 0 THEN "summary" ELSE "executing"
                /\ entry' = NoEntry
                /\ UNCHANGED <<user_request, auto_execute, ret, calls>>
    /\ UNCHANGED <<GEMINI_AVAILABLE, reading, output_directory, project_state>>

\* the checks of a plan the orchestrator does not make
StepNumbersOf(w) == {w[i].step : i \in DOMAIN w}
BackwardOnly(w) ==
    \A i \in DOMAIN w : \A d \in w[i].depends_on :
        d < w[i].step /\ d \in StepNumbersOf(w)
UniqueNumbers(w) == \A i, j \in DOMAIN w : i # j => w[i].step # w[j].step
KnownAgents(w) == \A i \in DOMAIN w : w[i].agent \in TeamMembers

Rejects ==
    /\ pc = "analysis"
    /\ Returns(OrchestratorReturn("validation_error", NoSummary))
    /\ UNCHANGED <<GEMINI_AVAILABLE, reading, output_directory, project_state>>

\* variant, not the code: a plan with a forward, self or dangling dependency is rejected
AnalysisPlansBackwardOnly(w) == IF BackwardOnly(w) THEN AcceptPlan(w) ELSE Rejects

\* variant, not the code: an empty plan or one with a repeated step number is rejected
AnalysisPlansUnique(w) ==
    IF w # <<>> /\ UniqueNumbers(w) THEN AcceptPlan(w) ELSE Rejects

AnalysisPlans(w) == AcceptPlan(w)

\* variant, not the code: the loop walks the steps in ascending step number (stable)
StepAtSortedById(w, i) ==
    LET n == Len(w)
        order == CHOOSE f \in [1..n -> 1..n] :
                    /\ \A a, b \in 1..n : a # b => f[a] # f[b]
                    /\ \A a, b \in 1..n : a < b =>
                          \/ w[f[a]].step < w[f[b]].step
                          \/ w[f[a]].step = w[f[b]].step /\ f[a] < f[b]
    IN  w[order[i]]

\* the step the loop is at: the loop walks the list as the planner gave it
StepAt(w, i) == w[i]

\* variant, not the code: a step that failed is tried again until it succeeds
RecordStepRetry(step_info, r) ==
    LET agent_name == step_info.agent
        result == IF r.raised THEN ErrorExecuting(agent_name) ELSE r.result
        failed == r.raised \/ r.result.kind = "error_text"
    IN  IF failed
        THEN UNCHANGED vars
        ELSE /\ project_state' = r.state
             /\ results' = [results EXCEPT ![agent_name] = result]
             /\ workflow_outputs' = Append(workflow_outputs, result)
             /\ plan_summary' =
                   [plan_summary EXCEPT !.sections = Append(@, Section(step_info, result))]
             /\ calls' =
                   IF CallsWorker(step_info)
                   THEN Append(calls, [pos |-> idx, step |-> step_info.step,
                                       agent |-> agent_name, raised |-> r.raised,
                                       result |-> r.result, prompt |-> r.prompt])
                   ELSE calls
             /\ idx' = idx + 1
             /\ pc' = IF idx = Len(plan) THEN "summary" ELSE "executing"
             /\ UNCHANGED <<GEMINI_AVAILABLE, reading, output_directory, user_request,
                            auto_execute, plan, ret, entry>>

\* variant, not the code: what a step's worker wrote reaches project_state when the loop has ended
RecordStepDeferred(step_info, r) ==
    LET agent_name == step_info.agent
        result == IF r.raised THEN ErrorExecuting(agent_name) ELSE r.result
    IN  /\ project_state' = IF idx = Len(plan) THEN r.state ELSE project_state
        /\ results' = [results EXCEPT ![agent_name] = result]
        /\ workflow_outputs' =
              IF r.raised THEN workflow_outputs ELSE Append(workflow_outputs, result)
        /\ plan_summary' =
              [plan_summary EXCEPT !.sections = Append(@, Section(step_info, result))]
        /\ calls' =
              IF CallsWorker(step_info)
              THEN Append(calls, [pos |-> idx, step |-> step_info.step,
                                  agent |-> agent_name, raised |-> r.raised,
                                  result |-> r.result, prompt |-> r.prompt])
              ELSE calls
        /\ idx' = idx + 1
        /\ pc' = IF idx = Len(plan) THEN "summary" ELSE "executing"
        /\ UNCHANGED <<GEMINI_AVAILABLE, reading, output_directory, user_request, auto_execute, plan, ret, entry>>

\* the body of the loop for the step at idx, r being how the dispatch ended:
\* a result is recorded under the agent's name and appended to the outputs,
\* an exception is caught and recorded under the agent's name only
RecordStep(step_info, r) ==
    LET agent_name == step_info.agent
        result == IF r.raised THEN ErrorExecuting(agent_name) ELSE r.result
    IN  /\ project_state' = r.state
        /\ results' = [results EXCEPT ![agent_name] = result]
        /\ workflow_outputs' =
              IF r.raised THEN workflow_outputs ELSE Append(workflow_outputs, result)
        /\ plan_summary' =
              [plan_summary EXCEPT !.sections = Append(@, Section(step_info, result))]
        /\ calls' =
              IF CallsWorker(step_info)
              THEN Append(calls, [pos |-> idx, step |-> step_info.step,
                                  agent |-> agent_name, raised |-> r.raised,
                                  result |-> r.result, prompt |-> r.prompt])
              ELSE calls
        /\ idx' = idx + 1
        /\ pc' = IF idx = Len(plan) THEN "summary" ELSE "executing"
        /\ UNCHANGED <<GEMINI_AVAILABLE, reading, output_directory, user_request, auto_execute, plan, ret, entry>>

\* variant, not the code: no try/except around the dispatch, a worker's exception ends the run
ExecuteStepNoCatch(out) ==
    /\ pc = "executing"
    /\ idx <= Len(plan)
    /\ LET step_info == StepAt(plan, idx)
           r == Dispatch(step_info, user_request, project_state, out)
       IN  IF r.raised
           THEN /\ Returns(ToolRaised("orchestrator"))
                /\ project_state' = r.state
                /\ UNCHANGED <<GEMINI_AVAILABLE, reading, output_directory>>
           ELSE RecordStep(step_info, r)

\* variant, not the code: the loop takes the remaining steps in no fixed order
ExecuteStepAnyOrder(out) ==
    /\ pc = "executing"
    /\ idx <= Len(plan)
    /\ \E j \in idx..Len(plan) :
          LET step_info == StepAt(plan, j)
          IN  RecordStep(step_info, Dispatch(step_info, user_request, project_state, out))

\* one turn of the execution loop
ExecuteStep(out) ==
    /\ pc = "executing"
    /\ idx <= Len(plan)
    /\ LET step_info == StepAt(plan, idx)
       IN  RecordStep(step_info, Dispatch(step_info, user_request, project_state, out))

\* the delivery summary, or the notice that replaces it when the call raises,
\* and the final lines of the report
DeliverySummary == "<delivery summary>"
Notice == "<error generating summary>"

\* variant, not the code: no try/except around the summary call, its exception ends the run
SummarizeNoCatch(out) ==
    /\ pc = "summary"
    /\ IF out = GeminiRaises
       THEN Returns(ToolRaised("orchestrator"))
       ELSE Returns(OrchestratorReturn("complete",
                [plan_summary EXCEPT
                    !.narrative = DeliverySummary,
                    !.complete = TRUE,
                    !.members = Cardinality(ResultKeys(results)),
                    !.artifacts = Len(workflow_outputs)]))
    /\ UNCHANGED <<GEMINI_AVAILABLE, reading, output_directory, project_state>>

\* the summary call, the final lines of the report and the return
Summarize(out) ==
    /\ pc = "summary"
    /\ Returns(OrchestratorReturn("complete",
            [plan_summary EXCEPT
                !.narrative = IF out = GeminiRaises THEN Notice ELSE DeliverySummary,
                !.complete = TRUE,
                !.members = Cardinality(ResultKeys(results)),
                !.artifacts = Len(workflow_outputs)]))
    /\ UNCHANGED <<GEMINI_AVAILABLE, reading, output_directory, project_state>>

---------------------------------------------------------------------------
(* Tools called directly *)

ToolReturn(r, agent) ==
    /\ project_state' = r.state
    /\ ret' = IF r.raised THEN ToolRaised(agent) ELSE r.result
    /\ entry' = NoEntry
    /\ UNCHANGED <<GEMINI_AVAILABLE, reading, output_directory, callVars>>

\* variant, not the code: the tool is served by a thread of its own, also while a read is in progress
ProductAnalystWhileReading(request, out) ==
    /\ pc \in {"idle", "reading"}
    /\ ToolReturn(product_analyst(project_state, request, out), "product_analyst")

ProductAnalyst(request, out) ==
    /\ pc = "idle"
    /\ ToolReturn(product_analyst(project_state, request, out), "product_analyst")

ResearchEngineer(out) ==
    /\ pc = "idle"
    /\ ToolReturn(research_engineer(project_state, out), "research_engineer")

SoftwareArchitect(requirements, out) ==
    /\ pc = "idle"
    /\ ToolReturn(software_architect(project_state, requirements, out),
                  "software_architect")

TechnicalLead(architecture, out) ==
    /\ pc = "idle"
    /\ ToolReturn(technical_lead(project_state, architecture, out), "technical_lead")

SeniorDeveloper(module_name, out) ==
    /\ pc = "idle"
    /\ ToolReturn(senior_developer(project_state, module_name, out), "senior_developer")

QaEngineer(module_name, code, out) ==
    /\ pc = "idle"
    /\ ToolReturn(qa_engineer(project_state, module_name, code, out), "qa_engineer")

DevopsEngineer(out) ==
    /\ pc = "idle"
    /\ ToolReturn(devops_engineer(project_state, out), "devops_engineer")

DocumentationSpecialist(out) ==
    /\ pc = "idle"
    /\ ToolReturn(documentation_specialist(project_state, out),
                  "documentation_specialist")

\* variant, not the code: reset_project leaves the name of the project
reset_projectKeepsName(ps) ==
    [ps EXCEPT !.requirements = None, !.architecture = None,
               !.tech_stack = None, !.implementation_plan = None,
               !.code_modules = NoModules, !.testing_results = None,
               !.deployment_plan = None]

\* the eight assignments of reset_project
reset_project(ps) ==
    [ps EXCEPT !.current_project = None, !.requirements = None,
               !.architecture = None, !.tech_stack = None,
               !.implementation_plan = None, !.code_modules = NoModules,
               !.testing_results = None, !.deployment_plan = None]

ResetOk == [kind |-> "reset_ok"]

\* variant, not the code: reset_project is served while the execution loop of a run is between two steps
ResetProjectDuringRun ==
    /\ pc \in {"idle", "executing"}
    /\ project_state' = reset_project(project_state)
    /\ ret' = ResetOk
    /\ entry' = [changed |-> reset_project(project_state) # project_state,
                 had_artifacts |-> HasArtifacts(project_state)]
    /\ UNCHANGED <<GEMINI_AVAILABLE, reading, output_directory, callVars>>

\* variant, not the code: reset_project is served by a thread of its own, also while a read is in progress
ResetProjectWhileReading ==
    /\ pc \in {"idle", "reading"}
    /\ project_state' = reset_project(project_state)
    /\ ret' = ResetOk
    /\ entry' = [changed |-> reset_project(project_state) # project_state,
                 had_artifacts |-> HasArtifacts(project_state)]
    /\ UNCHANGED <<GEMINI_AVAILABLE, reading, output_directory, callVars>>

ResetProject ==
    /\ pc = "idle"
    /\ project_state' = reset_project(project_state)
    /\ ret' = ResetOk
    /\ entry' = [changed |-> reset_project(project_state) # project_state,
                 had_artifacts |-> HasArtifacts(project_state)]
    /\ UNCHANGED <<GEMINI_AVAILABLE, reading, output_directory, callVars>>

---------------------------------------------------------------------------
(* The status and summary reads: the tools team_status and                 *)
(* get_project_summary of server.py and the routes GET / and GET /project  *)
(* of fastapi_server.py, which imports project_state from server.py.       *)

team_status(ps) ==
    [kind |-> "team_status",
     gemini_ai |-> GEMINI_AVAILABLE,
     name |-> StateGet(ps, "current_project", "No active project"),
     has_requirements |-> ps.requirements # None,
     has_architecture |-> ps.architecture # None,
     has_implementation_plan |-> ps.implementation_plan # None,
     code_modules_count |-> Cardinality(ModuleKeys(ps.code_modules)),
     has_deployment_plan |-> ps.deployment_plan # None]

NoActiveProject == [kind |-> "no_active_project"]

get_project_summary(ps) ==
    IF Falsy(ps.current_project) THEN NoActiveProject
    ELSE [kind |-> "project_summary",
          project |-> ps.current_project,
          requirements |-> ~Falsy(ps.requirements),
          architecture |-> ~Falsy(ps.architecture),
          implementation_plan |-> ~Falsy(ps.implementation_plan),
          code_modules_count |-> Cardinality(ModuleKeys(ps.code_modules)),
          deployment_plan |-> ~Falsy(ps.deployment_plan),
          modules |-> ModuleKeys(ps.code_modules)]

root(ps) ==
    [kind |-> "root",
     current_project |-> ps.current_project,
     gemini_ai |-> GEMINI_AVAILABLE]

get_project_status(ps) ==
    [kind |-> "project_status",
     current_project |-> ps.current_project,
     has_requirements |-> ps.requirements # None,
     has_architecture |-> ps.architecture # None,
     has_implementation_plan |-> ps.implementation_plan # None,
     code_modules_count |-> Cardinality(ModuleKeys(ps.code_modules)),
     has_deployment_plan |-> ps.deployment_plan # None,
     available_modules |-> ModuleKeys(ps.code_modules)]

\* a read gives its answer and writes nothing
ReadReturn(value) ==
    /\ ret' = value
    /\ entry' = NoEntry
    /\ UNCHANGED <<GEMINI_AVAILABLE, reading, output_directory, project_state, callVars>>

\* variant, not the code: the status call stores the name it reports
TeamStatusStoresName ==
    /\ pc = "idle"
    /\ ret' = team_status(project_state)
    /\ project_state' =
          [project_state EXCEPT
              !.current_project = IF @ = None THEN "No active project" ELSE @]
    /\ entry' = NoEntry
    /\ UNCHANGED <<GEMINI_AVAILABLE, reading, output_directory, callVars>>

TeamStatus ==
    /\ pc = "idle"
    /\ ReadReturn(team_status(project_state))

GetProjectSummary ==
    /\ pc = "idle"
    /\ ReadReturn(get_project_summary(project_state))

Root ==
    /\ pc = "idle"
    /\ ReadReturn(root(project_state))

\* no read is in progress
NoRead == [op |-> "none"]

\* GET /project builds its answer field by field.  The handler is an async
\* function without an await, so the event loop runs it to its end before it
\* serves another call: between its first reads and its last ones pc is
\* "reading", where no other handler is enabled.
GetProjectStatusBegin ==
    /\ pc = "idle"
    /\ reading = NoRead
    /\ pc' = "reading"
    /\ reading' = [op |-> "project_status",
                   current_project |-> project_state.current_project,
                   has_requirements |-> project_state.requirements # None,
                   has_architecture |-> project_state.architecture # None]
    /\ ret' = NoReturn
    /\ entry' = NoEntry
    /\ UNCHANGED <<GEMINI_AVAILABLE, output_directory, project_state, user_request,
                   auto_execute, plan, idx, results, workflow_outputs,
                   plan_summary, calls>>

GetProjectStatusEnd ==
    /\ pc = "reading"
    /\ reading.op = "project_status"
    /\ pc' = "idle"
    /\ reading' = NoRead
    /\ ret' = [kind |-> "project_status",
               current_project |-> reading.current_project,
               has_requirements |-> reading.has_requirements,
               has_architecture |-> reading.has_architecture,
               has_implementation_plan |-> project_state.implementation_plan # None,
               code_modules_count |->
                   Cardinality(ModuleKeys(project_state.code_modules)),
               has_deployment_plan |-> project_state.deployment_plan # None,
               available_modules |-> ModuleKeys(project_state.code_modules)]
    /\ UNCHANGED <<GEMINI_AVAILABLE, output_directory, project_state, user_request,
                   auto_execute, plan, idx, results, workflow_outputs,
                   plan_summary, calls, entry>>

GetProjectStatus == GetProjectStatusBegin \/ GetProjectStatusEnd

---------------------------------------------------------------------------
(* export_project_files: the gate on current_project, the directory tree,  *)
(* the code modules, then the documents, the README and the result.  The   *)
(* file operations are in one try; any of them can fail.                   *)

NoActiveExport == [kind |-> "no_active_export"]
ExportFailed == [kind |-> "export_failed"]

FileOutcomes == {"ok", "fails"}

\* variant, not the code: the export does not look at current_project first
ExportBeginNoGate(io) ==
    /\ pc = "idle"
    /\ reading = NoRead
    /\ entry' = NoEntry
    /\ IF io = "fails"
       THEN /\ ret' = ExportFailed
            /\ output_directory' \in BOOLEAN
            /\ UNCHANGED <<pc, reading>>
       ELSE /\ pc' = "reading"
            /\ reading' = [op |-> "export",
                           project |-> project_state.current_project,
                           moved |-> output_directory,
                           modules |-> project_state.code_modules]
            /\ output_directory' = TRUE
            /\ ret' = NoReturn
    /\ UNCHANGED <<GEMINI_AVAILABLE, project_state, user_request, auto_execute,
                   plan, idx, results, workflow_outputs, plan_summary, calls>>

\* the gate, the backup of an existing directory, the folders and the files
\* of the code modules
ExportBegin(io) ==
    /\ pc = "idle"
    /\ reading = NoRead
    /\ entry' = NoEntry
    /\ IF Falsy(project_state.current_project)
       THEN /\ ret' = NoActiveExport
            /\ UNCHANGED <<pc, reading, output_directory>>
       ELSE IF io = "fails"
       THEN /\ ret' = ExportFailed
            /\ output_directory' \in BOOLEAN
            /\ UNCHANGED <<pc, reading>>
       ELSE /\ pc' = "reading"
            /\ reading' = [op |-> "export",
                           project |-> project_state.current_project,
                           moved |-> output_directory,
                           modules |-> project_state.code_modules]
            /\ output_directory' = TRUE
            /\ ret' = NoReturn
    /\ UNCHANGED <<GEMINI_AVAILABLE, project_state, user_request, auto_execute,
                   plan, idx, results, workflow_outputs, plan_summary, calls>>

\* the documents, the README and the result
ExportEnd(io) ==
    /\ pc = "reading"
    /\ reading.op = "export"
    /\ pc' = "idle"
    /\ reading' = NoRead
    /\ ret' = IF io = "fails" THEN ExportFailed
              ELSE [kind |-> "export_complete",
                    gate |-> reading.project,
                    backup |-> reading.moved,
                    modules |-> reading.modules,
                    requirements |-> project_state.requirements,
                    architecture |-> project_state.architecture,
                    implementation_plan |-> project_state.implementation_plan,
                    deployment_plan |-> project_state.deployment_plan,
                    readme |-> StateGet(project_state, "current_project",
                                        "Generated Project"),
                    project |-> StateGet(project_state, "current_project", "Unknown")]
    /\ UNCHANGED <<GEMINI_AVAILABLE, output_directory, project_state, user_request,
                   auto_execute, plan, idx, results, workflow_outputs,
                   plan_summary, calls, entry>>

ExportProjectFiles ==
    \/ \E io \in FileOutcomes : ExportBegin(io)
    \/ \E io \in FileOutcomes : ExportEnd(io)

---------------------------------------------------------------------------
(* The specification *)

Init ==
    /\ GEMINI_AVAILABLE \in BOOLEAN
    /\ project_state = EmptyState
    /\ pc = "idle"
    /\ user_request = None
    /\ auto_execute = FALSE
    /\ plan = <<>>
    /\ idx = 0
    /\ results = NoResults
    /\ workflow_outputs = <<>>
    /\ plan_summary = NoSummary
    /\ ret = NoReturn
    /\ calls = <<>>
    /\ entry = NoEntry
    /\ reading = NoRead
    /\ output_directory = FALSE

Next ==
    \/ \E request \in RunRequests, auto \in BOOLEAN : OrchestratorStart(request, auto)
    \/ \E kind \in AnalysisFailures : AnalysisFails(kind)
    \/ \E w \in Plans : AnalysisPlans(w)
    \/ \E out \in GeminiOutcomes : ExecuteStep(out)
    \/ \E out \in GeminiOutcomes : Summarize(out)
    \/ \E request \in Requests, out \in GeminiOutcomes : ProductAnalyst(request, out)
    \/ \E out \in GeminiOutcomes : ResearchEngineer(out)
    \/ \E requirements \in {None, "t1"}, out \in GeminiOutcomes :
            SoftwareArchitect(requirements, out)
    \/ \E architecture \in {None, "t1"}, out \in GeminiOutcomes :
            TechnicalLead(architecture, out)
    \/ \E module_name \in ModuleNames, out \in GeminiOutcomes :
            SeniorDeveloper(module_name, out)
    \/ \E module_name \in ModuleNames, code \in {None, "t1"}, out \in GeminiOutcomes :
            QaEngineer(module_name, code, out)
    \/ \E out \in GeminiOutcomes : DevopsEngineer(out)
    \/ \E out \in GeminiOutcomes : DocumentationSpecialist(out)
    \/ ResetProject
    \/ TeamStatus
    \/ GetProjectSummary
    \/ Root
    \/ GetProjectStatus

Spec == Init /\ [][Next]_vars

\* every external call of a run in progress returns or raises: the planning
\* call, the call of the worker of the step the loop is at, the summary call
ExternalCallsEnd ==
    /\ WF_vars((\E kind \in AnalysisFailures : AnalysisFails(kind))
                \/ (\E w \in Plans : AnalysisPlans(w)))
    /\ WF_vars(\E out \in GeminiOutcomes : ExecuteStep(out))
    /\ WF_vars(\E out \in GeminiOutcomes : Summarize(out))

LiveSpec == Init /\ [][Next]_vars /\ ExternalCallsEnd

\* the same tools with export_project_files and the directory it writes
ExportNext ==
    \/ Next
    \/ ExportProjectFiles

ExportSpec == Init /\ [][ExportNext]_vars

---------------------------------------------------------------------------
(* Properties *)

Running == pc \in {"executing", "summary"}

\* the worker invocations of the run in progress made for list position i
CallsAt(i) == {k \in DOMAIN calls : calls[k].pos = i}

\* a worker invocation that failed: it raised, or it returned an error text
FailedCall(c) == c.raised \/ c.result.kind = "error_text"

\* C1: a worker that raises does not end the run: the orchestrator call does
\* not raise, the failure is written into the section of that step, every
\* step before the loop's position has been dispatched (its worker invoked),
\* and the loop ends only after the last step.
C1_FailureIsolation ==
    /\ ret # ToolRaised("orchestrator")
    /\ Running =>
        /\ Len(plan_summary.sections) = idx - 1
        /\ \A i \in 1..(idx - 1) :
            /\ CallsWorker(plan[i]) => CallsAt(i) # {}
            /\ \A k \in CallsAt(i) :
                  calls[k].raised =>
                      plan_summary.sections[i].entry = ErrorExecuting(plan[i].agent)
        /\ pc = "summary" => idx = Len(plan) + 1

\* C1 witness: the loop has ended, a worker raised and the worker of a later
\* step was invoked after it
C1_Witness ==
    /\ pc = "summary"
    /\ \E k, l \in DOMAIN calls : calls[k].raised /\ calls[l].pos > calls[k].pos

\* C2 (as claimed): when the loop has ended, results holds one result per step
\* of the plan.
C2_OneResultPerStep ==
    pc = "summary" => Cardinality(ResultKeys(results)) = Len(plan)

\* C3 (as claimed): the worker of a step with a smaller step number is invoked
\* before the worker of a step with a larger one.
C3_AscendingIdOrder ==
    \A a, b \in DOMAIN calls : calls[a].step < calls[b].step => a < b

\* C3 (amended): steps are executed in the order of the plan's list: the k-th
\* section of the report is that of the k-th step of the list, and workers are
\* invoked in increasing list position, each for the step at its position.
C3_ListOrder ==
    Running =>
        /\ \A k \in DOMAIN plan_summary.sections :
              /\ plan_summary.sections[k].step = plan[k].step
              /\ plan_summary.sections[k].agent = plan[k].agent
        /\ \A a \in DOMAIN calls :
              /\ calls[a].step = plan[calls[a].pos].step
              /\ calls[a].agent = plan[calls[a].pos].agent
              /\ \A b \in DOMAIN calls : a < b => calls[a].pos < calls[b].pos

\* C3 witness: two workers were invoked, the larger step number first
C3_Witness ==
    /\ pc = "summary"
    /\ Len(calls) = 2
    /\ calls[1].step > calls[2].step

\* C4 (as claimed): the invocation of a step that depends on an earlier,
\* smaller-numbered step that failed does not raise.
C4_NoCascade ==
    \A k \in DOMAIN calls :
        (\E j \in DOMAIN calls :
            /\ j < k
            /\ calls[j].step < calls[k].step
            /\ calls[j].step \in plan[calls[k].pos].depends_on
            /\ FailedCall(calls[j]))
        => ~calls[k].raised

\* the planner's answer w becomes the plan of the execution loop
Accepts(w) ==
    ENABLED (AnalysisPlans(w) /\ plan' = w /\ pc' \in {"executing", "summary"})

\* C5 (as claimed): no worker is invoked for a plan with a forward, self or
\* dangling dependency.
C5_ForwardDependencyRejected ==
    calls # <<>> => BackwardOnly(plan)

\* C5 (amended): a plan is accepted whether its dependencies point backward or
\* not: depends_on is copied into the report's listing and nothing else, and
\* the loop dispatches every step of the list.
C5_DependenciesNotValidated ==
    /\ (pc = "analysis" /\ auto_execute) =>
          \A w \in Plans :
              (UniqueNumbers(w) /\ BackwardOnly(w)) \/ ~BackwardOnly(w) => Accepts(w)
    /\ Running =>
          /\ plan_summary.workflow = Listing(plan)
          /\ pc = "summary" => Len(plan_summary.sections) = Len(plan)

\* C5 witness: the loop has ended for a plan with a forward, self or dangling
\* dependency, and workers were invoked
C5_Witness ==
    /\ pc = "summary"
    /\ ~BackwardOnly(plan)
    /\ calls # <<>>

\* C6 (as claimed): no worker is invoked for a plan that names an unknown agent.
C6_UnknownAgentRejected ==
    calls # <<>> => KnownAgents(plan)

\* C6 (amended): a plan that names an unknown agent is accepted; the unknown
\* name is found when the loop reaches the step: the step's section holds the
\* unknown-agent text, no worker is invoked for it, and the worker of every
\* other step before the loop's position has been invoked.
C6_UnknownAgentAtInvocation ==
    /\ (pc = "analysis" /\ auto_execute) =>
          \A w \in Plans : ~KnownAgents(w) => Accepts(w)
    /\ Running =>
          \A i \in 1..(idx - 1) :
              IF plan[i].agent \in TeamMembers
              THEN CallsAt(i) # {}
              ELSE /\ CallsAt(i) = {}
                   /\ plan_summary.sections[i].entry = UnknownAgentText(plan[i].agent)

\* C6 witness: the loop has ended for a plan whose first step names an unknown
\* agent, and the worker of a later step was invoked
C6_Witness ==
    /\ pc = "summary"
    /\ Len(plan) > 1
    /\ plan[1].agent \notin TeamMembers
    /\ calls # <<>>

\* C7 (as claimed): no worker is invoked for a plan with a repeated step number,
\* and a plan without steps is not reported as a completed project.
C7_InvalidPlanAborts ==
    /\ calls # <<>> => UniqueNumbers(plan)
    /\ ~(ret.kind = "complete" /\ ret.summary.workflow = <<>>)

\* C7 (amended): a plan without steps or with a repeated step number is
\* accepted.  With a repeated number every step is dispatched; without steps
\* no worker is invoked, no artifact is written, and the run is reported as
\* complete with no team member and no artifact.
C7_InvalidPlanRuns ==
    /\ (pc = "analysis" /\ auto_execute) =>
          \A w \in Plans : (w = <<>> \/ ~UniqueNumbers(w)) => Accepts(w)
    /\ (pc = "summary" /\ ~UniqueNumbers(plan)) =>
          Len(plan_summary.sections) = Len(plan)
    /\ (pc = "summary" /\ plan = <<>>) =>
          calls = <<>> /\ ~HasArtifacts(project_state)
    /\ (ret.kind = "complete" /\ ret.summary.workflow = <<>>) =>
          /\ ret.summary.complete
          /\ ret.summary.sections = <<>>
          /\ ret.summary.members = 0
          /\ ret.summary.artifacts = 0

\* C7 witness: a run whose plan had no steps has returned the completed report
C7_Witness ==
    /\ pc = "idle"
    /\ ret.kind = "complete"
    /\ ret.summary.workflow = <<>>

\* a successful invocation of agent in the run in progress gave text
Produced(agent, text) ==
    \E k \in DOMAIN calls :
        /\ calls[k].agent = agent
        /\ ~calls[k].raised
        /\ calls[k].result = Report(agent, text)

\* C8: after the run-start reset and until the first step, no artifact field is
\* set and no code module is present; during the run every artifact in
\* project_state was produced by a successful step of this run.
C8_RunStartClears ==
    /\ (pc = "analysis" \/ (Running /\ calls = <<>>)) => ~HasArtifacts(project_state)
    /\ Running =>
        /\ project_state.requirements # None =>
              Produced("product_analyst", project_state.requirements)
        /\ project_state.architecture # None =>
              Produced("software_architect", project_state.architecture)
        /\ project_state.implementation_plan # None =>
              Produced("technical_lead", project_state.implementation_plan)
        /\ project_state.deployment_plan # None =>
              Produced("devops_engineer", project_state.deployment_plan)
        /\ \A m \in ModuleKeys(project_state.code_modules) :
              Produced("senior_developer", project_state.code_modules[m])

\* C8 witness: a run has started on a state that held artifacts of earlier work
C8_Witness ==
    /\ pc = "analysis"
    /\ entry.had_artifacts
    /\ ~HasArtifacts(project_state)

\* C9: while the planning call is pending no worker has been invoked, and each
\* way the planning can fail ends the run there: the orchestrator returns the
\* diagnostic and project_state stays as the reset left it.
C9_PlanningErrorAborts ==
    pc = "analysis" =>
        /\ calls = <<>>
        /\ \A kind \in AnalysisFailures :
              ENABLED (/\ AnalysisFails(kind)
                       /\ pc' = "idle"
                       /\ ret' = OrchestratorReturn(kind, NoSummary)
                       /\ calls' = <<>>
                       /\ project_state' = project_state)

\* C9 witness: a run has returned the planning diagnostic
C9_Witness ==
    /\ pc = "idle"
    /\ ret.kind \in AnalysisFailures

\* the step that ends a run at the planning call
PlanningAbort == pc = "analysis" /\ pc' = "idle" /\ ret'.kind \in AnalysisFailures

\* C10 (as claimed): after a run that ends at the planning call project_state
\* is what it was before the run started.
C10_AbortNoSideEffects ==
    [][PlanningAbort => project_state' = project_state /\ ~entry.changed]_vars

\* C10 (amended): after a run that ends at the planning call project_state is
\* what the run-start reset made it: current_project is the run's request, the
\* artifact fields are absent and code_modules is empty; the abort itself
\* writes nothing.  A run refused because Gemini is unavailable changes nothing.
C10_AbortKeepsReset ==
    [][/\ PlanningAbort =>
            /\ project_state' = project_state
            /\ project_state'.current_project = user_request
            /\ ~HasArtifacts(project_state')
       /\ ret' = OrchestratorReturn("requires_gemini", NoSummary) =>
            project_state' = project_state]_vars

\* C10 witness: a run has ended at the planning call and has left its request
\* as the current project
C10_Witness ==
    /\ pc = "idle"
    /\ ret.kind \in AnalysisFailures
    /\ project_state.current_project \in RunRequests
    /\ ~HasArtifacts(project_state)

\* a section of the report that shows a failed step: the worker raised, or it
\* returned its error text
FailedEntry(e) == e.kind \in {"error_executing", "error_text"}

\* C11: once the loop has ended the orchestrator returns the report whatever
\* the summary call does: the call is not left by an exception, the report
\* holds the section of every step of the plan, also when every step failed,
\* and when the summary call raises the narrative is the notice.
C11_ReportAlwaysAssembled ==
    /\ ret # ToolRaised("orchestrator")
    /\ pc = "summary" =>
          /\ Len(plan_summary.sections) = Len(plan)
          /\ \A out \in GeminiOutcomes :
                ENABLED (/\ Summarize(out)
                         /\ pc' = "idle"
                         /\ ret'.kind = "complete"
                         /\ ret'.summary.complete
                         /\ ret'.summary.workflow = plan_summary.workflow
                         /\ ret'.summary.sections = plan_summary.sections
                         /\ ret'.summary.narrative =
                               IF out = GeminiRaises THEN Notice ELSE DeliverySummary)
    /\ ret.kind = "complete" =>
          /\ ret.summary.complete
          /\ Len(ret.summary.sections) = Len(ret.summary.workflow)
          /\ \A i \in DOMAIN ret.summary.sections :
                /\ ret.summary.sections[i].step = ret.summary.workflow[i].step
                /\ ret.summary.sections[i].agent = ret.summary.workflow[i].agent
          /\ ret.summary.narrative \in {Notice, DeliverySummary}

\* C11 witness: a run in which every step failed and the summary call raised
\* has returned its report
C11_Witness ==
    /\ pc = "idle"
    /\ ret.kind = "complete"
    /\ Len(ret.summary.sections) = MaxSteps
    /\ \A i \in DOMAIN ret.summary.sections : FailedEntry(ret.summary.sections[i].entry)
    /\ \E i, j \in DOMAIN ret.summary.sections :
          /\ ret.summary.sections[i].entry.kind = "error_executing"
          /\ ret.summary.sections[j].entry.kind = "error_text"
    /\ ret.summary.narrative = Notice

\* the sections of a report that show a step that did not fail
NotFailed(summary) ==
    {i \in DOMAIN summary.sections : ~FailedEntry(summary.sections[i].entry)}

\* C12 (as claimed): the returned report has a section for every step of the
\* plan, and a failed step is not counted like a successful output: the
\* artifacts the report counts are at most the steps that did not fail.
C12_FailedStepsMarked ==
    ret.kind = "complete" =>
        /\ Len(ret.summary.sections) = Len(ret.summary.workflow)
        /\ ret.summary.artifacts <= Cardinality(NotFailed(ret.summary))

\* an answer of one of the status and summary reads
ReadKinds == {"team_status", "no_active_project", "project_summary", "root",
              "project_status"}

\* C13: team_status, get_project_summary, GET / and GET /project leave
\* project_state as it was, in whatever state they are called, and answer
\* from that state.
C13_ReadsDoNotMutate ==
    [][/\ (TeamStatus \/ GetProjectSummary \/ Root \/ GetProjectStatus) =>
            project_state' = project_state
       /\ ret'.kind \in ReadKinds =>
            /\ project_state' = project_state
            /\ ret' \in {team_status(project_state), get_project_summary(project_state),
                          root(project_state), get_project_status(project_state)}]_vars

\* C13 witness: the summary of a project with artifacts has been read, and the
\* state still holds what the summary shows
C13_Witness ==
    /\ pc = "idle"
    /\ ret.kind = "project_summary"
    /\ ret = get_project_summary(project_state)
    /\ ret.requirements /\ ret.architecture
    /\ ret.modules # {}

\* C14: reset_project can be called between any two tool calls and makes
\* project_state the empty state, which is the state at process start; a
\* second reset_project leaves that state as it is.
C14_ResetIdempotent ==
    /\ reset_project(project_state) = EmptyState
    /\ reset_project(reset_project(project_state)) = reset_project(project_state)
    /\ ModuleKeys(reset_project(project_state).code_modules) = {}
    /\ pc = "idle" =>
          ENABLED (ResetProject /\ project_state' = EmptyState /\ ret' = ResetOk)
    /\ (pc = "idle" /\ ret = ResetOk) =>
          /\ project_state = EmptyState
          /\ ENABLED (ResetProject /\ project_state' = project_state /\ ~entry'.changed)

\* C14 witness: reset_project has been called on a state with a project name
\* and artifacts, and the state is the empty one
C14_Witness ==
    /\ pc = "idle"
    /\ ret = ResetOk
    /\ entry.changed /\ entry.had_artifacts
    /\ project_state = EmptyState

\* the keys of project_state
Fields == DOMAIN EmptyState

\* the artifact fields of project_state that differ between two states
\* (code_modules counted as one field)
Written(ps, qs) == {f \in Fields : ps[f] # qs[f]}

\* the worker tools that write project_state, and the field each produces
Produces(agent) ==
    CASE agent = "product_analyst" -> "requirements"
      [] agent = "software_architect" -> "architecture"
      [] agent = "technical_lead" -> "implementation_plan"
      [] agent = "senior_developer" -> "code_modules"
      [] agent = "devops_engineer" -> "deployment_plan"
      [] OTHER -> "none"

\* a direct call of a worker tool has returned its report
DirectSuccess == pc = "idle" /\ pc' = "idle" /\ ret'.kind = "report"

\* a step of the loop whose worker returned its report
StepSuccess ==
    /\ pc = "executing"
    /\ Len(plan_summary'.sections) = Len(plan_summary.sections) + 1
    /\ plan_summary'.sections[Len(plan_summary'.sections)].entry.kind = "report"

\* the report a successful call returned
ReportOf ==
    IF pc = "idle" THEN ret'
    ELSE plan_summary'.sections[Len(plan_summary'.sections)].entry

\* C15 (as claimed): after a successful worker call the field the worker
\* produces holds the text the worker generated, and every other field of
\* project_state has the value it had before the call.
C15_WriteChangesOneField ==
    [][(DirectSuccess \/ StepSuccess) =>
          /\ Produces(ReportOf.agent) # "none" =>
                IF ReportOf.agent = "senior_developer"
                THEN ReportOf.text \in
                        {project_state'.code_modules[m] : m \in ModuleNames}
                ELSE project_state'[Produces(ReportOf.agent)] = ReportOf.text
          /\ Written(project_state, project_state') \subseteq {Produces(ReportOf.agent)}]_vars

\* C15 (amended): after a successful worker call the field the worker produces
\* holds the text the worker generated, and every other field has the value
\* it had before the call, except that product_analyst also sets
\* current_project to the request it was called with; senior_developer sets
\* one entry of code_modules and leaves the other entries; the workers that
\* produce no field write nothing.
C15_WriteChangesOwnFields ==
    [][(DirectSuccess \/ StepSuccess) =>
          /\ Produces(ReportOf.agent) # "none" =>
                IF ReportOf.agent = "senior_developer"
                THEN \E m \in ModuleNames :
                        project_state'.code_modules =
                            [project_state.code_modules EXCEPT ![m] = ReportOf.text]
                ELSE project_state'[Produces(ReportOf.agent)] = ReportOf.text
          /\ Written(project_state, project_state') \subseteq
                IF ReportOf.agent = "product_analyst"
                THEN {"requirements", "current_project"}
                ELSE {Produces(ReportOf.agent)}
          /\ ReportOf.agent = "product_analyst" =>
                \E r \in IF pc = "idle" THEN Requests
                          ELSE {ParamGet(plan[idx].parameters, "user_request",
                                         user_request)} :
                    project_state' = [project_state EXCEPT
                                         !.requirements = ReportOf.text,
                                         !.current_project = r]]_vars

\* C15 witness: software_architect has set the architecture and the
\* requirements and a code module written before are still there
C15_Witness ==
    /\ pc = "idle"
    /\ ret = Report("software_architect", "t2")
    /\ project_state.architecture = "t2"
    /\ project_state.requirements = "t1"
    /\ project_state.code_modules["m1"] = "t1"

\* the outcome of the generation call that a section of the report shows
OutcomeOf(e) == IF e.kind = "report" THEN e.text ELSE GeminiRaises

\* what a run with plan w for request leaves after its first n steps, when
\* the generation call of step i ends as outs[i]: computed from the plan and
\* the outcomes alone, starting from the state the run-start reset makes
RECURSIVE Replay(_, _, _, _)
Replay(w, request, outs, n) ==
    IF n = 0
    THEN [state |-> ResetForRun(EmptyState, request), sections |-> <<>>,
          outputs |-> <<>>]
    ELSE LET prev == Replay(w, request, outs, n - 1)
             r == Dispatch(w[n], request, prev.state, outs[n])
             result == IF r.raised THEN ErrorExecuting(w[n].agent) ELSE r.result
         IN  [state |-> r.state,
              sections |-> Append(prev.sections, Section(w[n], result)),
              outputs |-> IF r.raised THEN prev.outputs
                          ELSE Append(prev.outputs, result)]

\* C16: the ledger and project_state of a run are a function of the request,
\* the plan and the outcomes of the worker calls: whatever happened before the
\* run and however the run was reached, after n steps they are what the plan
\* and the outcomes give when computed step by step in list order.  (The
\* state a run starts from has no part in it: the run-start reset clears what
\* earlier calls wrote, and tech_stack and testing_results are never written.)
C16_Deterministic ==
    /\ project_state.tech_stack = None
    /\ project_state.testing_results = None
    /\ Running =>
          LET outs == [i \in 1..(idx - 1) |->
                          OutcomeOf(plan_summary.sections[i].entry)]
              replay == Replay(plan, user_request, outs, idx - 1)
          IN  /\ Len(plan_summary.sections) = idx - 1
              /\ plan_summary.sections = replay.sections
              /\ workflow_outputs = replay.outputs
              /\ project_state = replay.state

\* C16 witness: a run of two steps has ended, one step wrote project_state,
\* the other failed
C16_Witness ==
    /\ pc = "summary"
    /\ Len(plan) = MaxSteps
    /\ HasArtifacts(project_state)
    /\ \E i \in DOMAIN plan_summary.sections :
          FailedEntry(plan_summary.sections[i].entry)
    /\ plan[1].agent # plan[2].agent

\* the sections of a report that show a worker's report
Succeeded(summary) ==
    {i \in DOMAIN summary.sections : summary.sections[i].entry.kind = "report"}

\* C17 (as claimed): the number of outputs the returned report counts is the
\* number of steps whose worker succeeded, and the steps it does not count
\* are the steps that failed.
C17_CountsExact ==
    ret.kind = "complete" =>
        /\ ret.summary.artifacts = Cardinality(Succeeded(ret.summary))
        /\ Len(ret.summary.sections) - ret.summary.artifacts =
              Cardinality(DOMAIN ret.summary.sections \ NotFailed(ret.summary))

\* the text of the last successful call of agent before invocation k of the
\* run in progress (for senior_developer: for module m), or default
LastProduced(k, agent, m, default) ==
    LET made == {j \in 1..(k - 1) :
                    /\ calls[j].agent = agent
                    /\ ~calls[j].raised
                    /\ calls[j].result.kind = "report"
                    /\ agent = "senior_developer" =>
                          ParamGet(plan[calls[j].pos].parameters, "module_name",
                                   "main_module") = m}
    IN  IF made = {} THEN default
        ELSE calls[CHOOSE j \in made : \A i \in made : i <= j].result.text

IsReset ==
    \/ ResetProject
    \/ \E request \in RunRequests, auto \in BOOLEAN : OrchestratorStart(request, auto)

\* every artifact field that is set in ps is set in qs, and every module of
\* ps is a module of qs
Keeps(ps, qs) ==
    /\ \A f \in {"requirements", "architecture", "implementation_plan",
                  "deployment_plan"} : ps[f] # None => qs[f] # None
    /\ ModuleKeys(ps.code_modules) \subseteq ModuleKeys(qs.code_modules)

\* C19: a step that is neither reset_project nor the start of an orchestrator
\* run leaves every set artifact field set and every code module present
\* (it may give it a new value).
C19_NoDeletionExceptReset ==
    [][~IsReset => Keeps(project_state, project_state')]_vars

\* C19 witness: a worker call has failed and the artifact it would have
\* replaced is still there, with the other artifacts
C19_Witness ==
    /\ pc = "idle"
    /\ ret = ErrorText("technical_lead")
    /\ project_state.implementation_plan # None
    /\ project_state.requirements # None
    /\ ModuleKeys(project_state.code_modules) = ModuleNames

\* C20 (as claimed): a result recorded in results during a run is not
\* replaced by a later step of the run.
C20_RecordedResultKept ==
    [][(pc = "executing" /\ pc' \in {"executing", "summary"}) =>
          \A a \in ResultKeys(results) : results'[a] = results[a]]_vars

\* a call that writes project_state can start: a reset, the start of a run,
\* a step of a run, or a worker tool called directly
WriterEnabled ==
    \/ ENABLED ResetProject
    \/ ENABLED (\E request \in RunRequests, auto \in BOOLEAN :
                    OrchestratorStart(request, auto))
    \/ ENABLED (\E out \in GeminiOutcomes : ExecuteStep(out))
    \/ ENABLED (\E request \in Requests, out \in GeminiOutcomes :
                    ProductAnalyst(request, out))
    \/ ENABLED (\E requirements \in {None, "t1"}, out \in GeminiOutcomes :
                    SoftwareArchitect(requirements, out))
    \/ ENABLED (\E architecture \in {None, "t1"}, out \in GeminiOutcomes :
                    TechnicalLead(architecture, out))
    \/ ENABLED (\E module_name \in ModuleNames, out \in GeminiOutcomes :
                    SeniorDeveloper(module_name, out))
    \/ ENABLED (\E out \in GeminiOutcomes : DevopsEngineer(out))

InRun == pc \in {"analysis", "executing", "summary"}

AttemptedOnce ==
    Running =>
        /\ Len(plan_summary.sections) = idx - 1
        /\ idx <= Len(plan) + 1
        /\ \A i \in 1..(idx - 1) :
              Cardinality(CallsAt(i)) = IF CallsWorker(plan[i]) THEN 1 ELSE 0
        /\ \A i \in idx..Len(plan) : CallsAt(i) = {}
        /\ pc = "summary" => idx = Len(plan) + 1

\* C24: when every external call returns or raises, an orchestrator call in
\* progress returns: a run that has its plan returns the complete report, and
\* on the way every step of the plan is attempted exactly once.
C24_RunTerminates ==
    /\ []AttemptedOnce
    /\ InRun ~> (pc = "idle")
    /\ Running ~> (pc = "idle" /\ ret.kind = "complete")

\* C24 witness: a run over a plan of the greatest length has returned its
\* report, with a section for every step
C24_Witness ==
    /\ pc = "idle"
    /\ ret.kind = "complete"
    /\ Len(ret.summary.workflow) = MaxSteps
    /\ Len(ret.summary.sections) = MaxSteps

\* a worker call that ended as r wrote nothing and returned the text e
FailsClean(r, e) == ~r.raised /\ r.result = e /\ r.state = project_state

\* how a call of each of the five writing workers ends in the current state
\* when its generation call, if made, ends as out
WriterCalls(out) ==
    [product_analyst |-> {product_analyst(project_state, request, out) :
                              request \in Requests},
     software_architect |-> {software_architect(project_state, t, out) :
                                 t \in {None, "t1"}},
     technical_lead |-> {technical_lead(project_state, t, out) :
                             t \in {None, "t1"}},
     senior_developer |-> {senior_developer(project_state, m, out) :
                               m \in ModuleNames},
     devops_engineer |-> {devops_engineer(project_state, out)}]

\* the workers that slice the stored architecture into their prompt before
\* the generation call
SlicesArchitecture == {"senior_developer", "devops_engineer"}

\* C25: a call of product_analyst, software_architect, technical_lead,
\* senior_developer or devops_engineer that does not succeed writes nothing:
\* without the generation service each returns its requires-Gemini text, and
\* when the generation call raises each returns its error text, with
\* project_state as it was; without the service the orchestrator returns
\* before its reset, so nothing is ever written.
C25_FailedCallWritesNothing ==
    /\ ~GEMINI_AVAILABLE =>
          /\ \A a \in DOMAIN WriterCalls("t1") :
                \A r \in WriterCalls("t1")[a] : FailsClean(r, RequiresGemini(a))
          /\ project_state = EmptyState
          /\ pc \in {"idle", "reading"}
          /\ \A request \in RunRequests, auto \in BOOLEAN :
                pc = "idle" =>
                ENABLED (/\ OrchestratorStart(request, auto)
                         /\ project_state' = project_state
                         /\ pc' = "idle"
                         /\ ret' = OrchestratorReturn("requires_gemini", NoSummary))
    /\ GEMINI_AVAILABLE =>
          \A a \in DOMAIN WriterCalls(GeminiRaises) :
              \A r \in WriterCalls(GeminiRaises)[a] :
                  \/ FailsClean(r, ErrorText(a))
                  \/ /\ a \in SlicesArchitecture
                     /\ project_state.architecture = None
                     /\ r = Raised(project_state, <<>>)

\* C25 witness: senior_developer has returned its error text for a project
\* that has an architecture and a code module, and both are still there
C25_Witness ==
    /\ pc = "idle"
    /\ ret = ErrorText("senior_developer")
    /\ project_state.architecture # None
    /\ ModuleKeys(project_state.code_modules) # {}

\* the workers that slice stored fields into their prompt outside any try
PromptSlicers ==
    {"senior_developer", "qa_engineer", "devops_engineer", "documentation_specialist"}

\* C26: a direct call of senior_developer, qa_engineer, devops_engineer or
\* documentation_specialist returns a text, its report or an error message,
\* whatever the project state, and never raises to its caller.
C26_DirectCallReturnsText ==
    \A a \in PromptSlicers : ret # ToolRaised(a)

\* C27: a run started with auto_execute false never enters the execution
\* loop or the summary call, so no worker is invoked for it; from its reset
\* until it has returned the plan summary no artifact field is written:
\* requirements, architecture, implementation_plan and deployment_plan are
\* absent and code_modules is empty.
C27_PlanOnlyWritesNothing ==
    /\ Running => auto_execute
    /\ (pc = "analysis" /\ ~auto_execute) =>
          /\ ~HasArtifacts(project_state)
          /\ calls = <<>>
          /\ \A w \in {<<>>, <<StepInfo(1, "product_analyst", NoParams, {})>>} :
                ENABLED (/\ AnalysisPlans(w)
                         /\ pc' = "idle"
                         /\ project_state' = project_state
                         /\ ret' = OrchestratorReturn("plan",
                                       [NoSummary EXCEPT !.workflow = Listing(w)]))
    /\ ret.kind = "plan" =>
          /\ pc = "idle"
          /\ ~HasArtifacts(project_state)
          /\ ret.summary.sections = <<>>
          /\ calls = <<>>

\* C27 witness: a run with auto_execute false has returned the summary of a
\* plan that has steps
C27_Witness ==
    /\ pc = "idle"
    /\ ret.kind = "plan"
    /\ ret.summary.workflow # <<>>
    /\ project_state.current_project \in RunRequests
    /\ ~HasArtifacts(project_state)

\* C28: from the run-start reset until the orchestrator returns, whatever
\* steps and parameters the plan has, current_project is the user_request
\* the run was started with.
C28_ProjectNamedByRequest ==
    InRun => project_state.current_project = user_request

\* the module names a senior_developer call that is being made can carry
NamedModules ==
    IF pc = "executing"
    THEN {ParamGet(plan[idx].parameters, "module_name", "main_module")}
    ELSE ModuleNames

\* C29: code_modules holds exactly the modules for which senior_developer
\* has succeeded since the last reset, each with the text of the latest
\* success for its name: a reset (reset_project or the start of a run)
\* empties it, a successful senior_developer call sets the entry of its
\* module name, replacing the entry the name had, and no other step changes
\* it; in a run every entry is the text of the last successful
\* senior_developer step for that name, and a name without one is absent.
C29_ModulesAreLatestSuccess ==
    /\ [](Running =>
            \A m \in ModuleNames :
                project_state.code_modules[m] =
                    LastProduced(Len(calls) + 1, "senior_developer", m, None))
    /\ [][IF (DirectSuccess \/ StepSuccess) /\ ReportOf.agent = "senior_developer"
          THEN \E m \in NamedModules :
                  project_state'.code_modules =
                      [project_state.code_modules EXCEPT ![m] = ReportOf.text]
          ELSE IF pc = "idle" /\ (ret' = ResetOk \/ pc' = "analysis")
          THEN project_state'.code_modules = NoModules
          ELSE project_state'.code_modules = project_state.code_modules]_vars

\* C29 witness: senior_developer has succeeded for two module names, last
\* for main_module, and each module holds the text generated for it
C29_Witness ==
    /\ pc = "idle"
    /\ ret = Report("senior_developer", "t2")
    /\ project_state.code_modules = [main_module |-> "t2", m1 |-> "t1"]

\* an export_project_files call made now is refused: it returns the
\* no-active-project message and leaves the output directory as it is
ExportRefused(io) ==
    /\ ExportBegin(io)
    /\ ret' = NoActiveExport
    /\ pc' = "idle"
    /\ output_directory' = output_directory

\* C30: while current_project is absent, get_project_summary and
\* export_project_files return their no-active-project message and the
\* export creates and moves nothing; while it is set neither refuses.  It
\* is absent at process start and after reset_project, and it is set from
\* the run-start reset of an orchestrator run on, also when the run ended
\* at planning.
C30_ActiveProjectGate ==
    /\ (get_project_summary(project_state) = NoActiveProject)
          <=> Falsy(project_state.current_project)
    /\ (pc = "idle" /\ reading = NoRead) =>
          \A io \in FileOutcomes :
              IF Falsy(project_state.current_project)
              THEN /\ ENABLED ExportRefused(io)
                   /\ ~ENABLED (ExportBegin(io) /\ ~ExportRefused(io))
              ELSE /\ ENABLED ExportBegin(io)
                   /\ ~ENABLED ExportRefused(io)
    /\ ret \in {NoActiveExport, NoActiveProject} =>
          Falsy(project_state.current_project)
    /\ ret.kind \in {"export_complete", "project_summary"} =>
          ~Falsy(project_state.current_project)
    /\ (ret = NoReturn /\ pc = "idle") \/ ret = ResetOk =>
          project_state.current_project = None
    /\ (pc = "analysis" \/ (pc = "idle" /\ ret.kind \in AnalysisFailures)) =>
          /\ project_state.current_project \in RunRequests
          /\ get_project_summary(project_state).kind = "project_summary"

\* C30 witness: after an export that wrote the directory and a reset, a
\* second export has been refused
C30_Witness ==
    /\ pc = "idle"
    /\ ret = NoActiveExport
    /\ output_directory
    /\ project_state.current_project = None

====
